---- MODULE Spec2Model ----
(***************************************************************************)
(* A model of the db-benchmark repository, in four specifications:         *)
(*   Spec         one benchmark run of scripts/eval_fiqa.py (main) against *)
(*                a backend selected by name, with the calls it issues on  *)
(*                the backend instance recorded in a call log; external    *)
(*                calls either return or raise;                            *)
(*   SpecStore    setup, upsert, search and clear calls, in any order, on  *)
(*                an instance of one backend class, with the server-side   *)
(*                state each class's code leaves;                          *)
(*   SpecMetrics  one call of the metric functions of utils/metrics_ir.py; *)
(*   SpecRepeat   the query phase of main run twice over an indexed store. *)
(***************************************************************************)
EXTENDS Integers, Sequences, FiniteSets, TLC

\* ------------------------------------------------------------ bounds
\* Largest number of rows of a corpus whose runs are explored with every workload.
MaxDocs == 2
\* Largest number of lines of queries.jsonl.
MaxQueries == 2
\* Largest number of data lines of the qrels TSV file.
MaxQrelLines == 2

\* ------------------------------------------------------------ program constants
\* eval_fiqa.py:123  batch_size = 1000
batch_size == 1000
\* eval_fiqa.py:166,177  k=10
top_k == 10

Min(a, b) == IF a < b THEN a ELSE b

\* Python set(list)
ToSet(s) == {s[j] : j \in DOMAIN s}

\* Python list slice s[a:b] for 0 <= a <= b (0-based, end exclusive, clipped).
Slice(s, a, b) == SubSeq(s, a + 1, Min(b, Len(s)))

\* Python range(0, n, step) as the set of its values.
Range(n, step) == {x \in 0..n : x < n /\ x % step = 0}

\* ------------------------------------------------------------ storage contract
\* databases/base.py: the abstract methods of VectorDB.
AbstractMethods == {"setup", "upsert", "search", "clear", "close"}

\* The names get_db_client selects a class for.
Variants == {"qdrant", "weaviate", "redis", "pgvector", "neo4j"}

\* The methods each backend class defines (besides __init__ and private helpers).
QdrantVectorDB == {"setup", "upsert", "search", "clear"}
WeaviateVectorDB == {"setup", "upsert", "search", "clear", "close"}
RedisVectorDB == {"setup", "upsert", "search", "clear", "close"}
PgVectorDB == {"setup", "close", "upsert", "search", "clear"}
Neo4jVectorDB == {"setup", "upsert", "search", "clear", "close"}

\* get_db_client: the class a name selects.
Methods(v) ==
  CASE v = "qdrant"   -> QdrantVectorDB
    [] v = "weaviate" -> WeaviateVectorDB
    [] v = "redis"    -> RedisVectorDB
    [] v = "pgvector" -> PgVectorDB
    [] v = "neo4j"    -> Neo4jVectorDB
    [] OTHER          -> {}

\* abc.ABC: a class with an abstract method left undefined cannot be instantiated.
Instantiable(v) == AbstractMethods \subseteq Methods(v)

\* ------------------------------------------------------------ exceptions
NoError == [type |-> "none", args |-> <<>>]
Raise(t) == [type |-> t, args |-> <<>>]

\* ------------------------------------------------------------ inputs
\* Python values that name a document: the int n, and the str that is the decimal
\* rendering of n.  FiQA ids are decimal; pandas reads the id column of the CSV as
\* int64 (embeddings/embed.py:11), and the qrels file gives them as text.
PyInt(n) == [py |-> "int", v |-> n]
PyStr(n) == [py |-> "str", v |-> n]

\* Python str(x) on an int or a str: the decimal text of an int, a str itself
\* (the kind "uuid" is the text of a uuid, see uuid5).
str(x) == IF x.py = "int" THEN [py |-> "str", v |-> x.v] ELSE x

\* Row i of the parquet file: id and doc_id name the same document
\* (data/fiqa_loader.py:26-27), emb is its embedding, of length len.
MakeDoc(i, len) ==
  [id |-> PyInt(i), doc_id |-> PyInt(i), text |-> i, emb |-> [j \in 1..len |-> i]]

\* A corpus of n rows; row `odd` (0: none) has an embedding one longer than the others.
MakeDf(n, odd) ==
  SubSeq([i \in 1..n |-> MakeDoc(i, IF i = odd THEN 2 ELSE 1)], 1, n)

SmallCorpora == {MakeDf(n, odd) : n \in 0..MaxDocs, odd \in {0, MaxDocs}}
LargeCorpora ==
  {MakeDf(batch_size, 0), MakeDf(batch_size + 1, 0),
   MakeDf(2 * batch_size + batch_size \div 2, 0),
   MakeDf(2 * batch_size + batch_size \div 2, 2 * batch_size)}
Corpora == SmallCorpora \cup LargeCorpora

QueryIds == {"q1", "q2", "q3"}
\* A line of queries.jsonl: {"_id", "text"}; each query has a text of its own.
Query(q) == [_id |-> q, text |-> <<"text of", q>>]
\* queries.jsonl: one query per line, each id on one line.
QueryFiles ==
  {[j \in DOMAIN f |-> Query(f[j])] :
     f \in {g \in UNION {[1..n -> QueryIds] : n \in 0..MaxQueries} :
              \A a, b \in DOMAIN g : a # b => g[a] # g[b]}}

\* Data lines of qrels/test.tsv: query-id, corpus-id, score.  q1 and q2 can have a
\* relevant document, q3 only a judgment of score 0.
AllQrelLines ==
  <<<<"q1", PyStr(1), 1>>, <<"q2", PyStr(2), 1>>,
    <<"q2", PyStr(1), 0>>, <<"q3", PyStr(1), 0>>>>
\* A file holds some of these lines, each once.
QrelFiles ==
  {SelectSeq(AllQrelLines, LAMBDA l : l \in S) :
     S \in {T \in SUBSET ToSet(AllQrelLines) : Cardinality(T) <= MaxQrelLines}}

\* The workload a large corpus is run with.
SmokeQueries == <<Query("q1")>>
SmokeQrels == <<<<"q1", PyStr(1), 1>>>>

\* ------------------------------------------------------------ load_qrels
RECURSIVE load_qrels_from(_, _, _)
load_qrels_from(lines, n, qrels) ==
  IF n > Len(lines) THEN qrels
  ELSE LET query_id == lines[n][1]
           corpus_id == lines[n][2]
           score == lines[n][3]
           q1 == IF query_id \in DOMAIN qrels THEN qrels
                 ELSE [x \in DOMAIN qrels \cup {query_id} |->
                         IF x = query_id THEN <<>> ELSE qrels[x]]
           q2 == IF score > 0
                 THEN [q1 EXCEPT ![query_id] = Append(@, corpus_id)]
                 ELSE q1
       IN load_qrels_from(lines, n + 1, q2)

EmptyDict == [x \in {} |-> <<>>]
load_qrels_any_score(lines) ==
  load_qrels_from([j \in DOMAIN lines |-> <<lines[j][1], lines[j][2], 1>>], 1, EmptyDict)
load_qrels(lines) == load_qrels_from(lines, 1, EmptyDict)

load_queries(lines) == lines

\* ------------------------------------------------------------ utils/metrics_ir.py
\* A float that is the quotient of two integers is kept as the pair <<num, den>>.
Zero == <<0, 1>>

\* 1 / math.log2(i + 2) for i = 0..9, in units of 1/10000.
InvLog2 == <<10000, 6309, 5000, 4307, 3869, 3562, 3333, 3155, 3010, 2891>>

RECURSIVE SumOver(_, _)
SumOver(f, S) ==
  IF S = {} THEN 0
  ELSE LET x == CHOOSE y \in S : TRUE IN f[x] + SumOver(f, S \ {x})

recall_at_k_no_cutoff(truth_doc_ids, retrieved_doc_ids, k) ==
  IF truth_doc_ids = {} THEN Zero
  ELSE <<Cardinality(truth_doc_ids \cap ToSet(retrieved_doc_ids)),
         Cardinality(truth_doc_ids)>>
recall_at_k(truth_doc_ids, retrieved_doc_ids, k) ==
  IF truth_doc_ids = {} THEN Zero
  ELSE LET retrieved_at_k == ToSet(Slice(retrieved_doc_ids, 0, k))
           relevant_retrieved == Cardinality(truth_doc_ids \cap retrieved_at_k)
       IN <<relevant_retrieved, Cardinality(truth_doc_ids)>>

mrr_at_k_last_hit(truth_doc_ids, retrieved_doc_ids, k) ==
  IF truth_doc_ids = {} THEN Zero
  ELSE LET top == Slice(retrieved_doc_ids, 0, k)
           hits == {j \in DOMAIN top : top[j] \in truth_doc_ids}
       IN IF hits = {} THEN Zero
          ELSE <<1, CHOOSE j \in hits : \A h \in hits : j >= h>>
mrr_at_k(truth_doc_ids, retrieved_doc_ids, k) ==
  IF truth_doc_ids = {} THEN Zero
  ELSE LET top == Slice(retrieved_doc_ids, 0, k)
           hits == {j \in DOMAIN top : top[j] \in truth_doc_ids}
       IN IF hits = {} THEN Zero
          ELSE <<1, CHOOSE j \in hits : \A h \in hits : j <= h>>

ndcg_at_k(truth_doc_ids, retrieved_doc_ids, k) ==
  IF truth_doc_ids = {} THEN Zero
  ELSE LET top == Slice(retrieved_doc_ids, 0, k)
           dcg == SumOver(InvLog2, {j \in DOMAIN top : top[j] \in truth_doc_ids})
           ideal_ranking_length == Min(Cardinality(truth_doc_ids), k)
           idcg == SumOver(InvLog2, 1..ideal_ranking_length)
       IN IF idcg = 0 THEN Zero ELSE <<dcg, idcg>>

precision_at_k(truth_doc_ids, retrieved_doc_ids, k) ==
  IF k = 0 THEN Zero
  ELSE LET retrieved_at_k == ToSet(Slice(retrieved_doc_ids, 0, k))
           relevant_retrieved == Cardinality(truth_doc_ids \cap retrieved_at_k)
       IN <<relevant_retrieved, k>>

\* ------------------------------------------------------------ result record
\* Fixed point for the aggregates: a value in units of 1/10000.
Units(v) == (v[1] * 10000) \div v[2]

\* np.mean(xs) if xs else 0.0
Mean(xs) ==
  IF xs = <<>> THEN 0
  ELSE SumOver([j \in DOMAIN xs |-> Units(xs[j])], DOMAIN xs) \div Len(xs)

\* np.percentile(xs, 95) if xs else 0.0 (linear interpolation), in units of 1/100.
Percentile95(xs) ==
  IF xs = <<>> THEN 0
  ELSE LET a == SortSeq(xs, <)
           pos == 95 * (Len(a) - 1)
           lo == pos \div 100 + 1
           hi == Min(lo + 1, Len(a))
       IN a[lo] * 100 + (pos % 100) * (a[hi] - a[lo])

\* x / t if t > 0 else 0
Rate(x, t) == IF t > 0 THEN <<x, t>> ELSE Zero

\* utils/results_utils.py make_result: the fields the run fills in.
make_result(dataset_size, queries_count, vector_dim, db_name, performance, retrieval) ==
  [context |-> [dataset_size |-> dataset_size, queries_count |-> queries_count,
                vector_dim |-> vector_dim],
   db |-> db_name,
   performance |-> performance,
   retrieval |-> retrieval]

\* ------------------------------------------------------------ state of a run
VARIABLES
  args_db,          \* --db
  parquet,          \* the rows of the --parquet file
  queries_file,     \* the lines of data/fiqa/queries.jsonl
  qrels_file,       \* the data lines of data/fiqa/qrels/test.tsv
  pc,               \* where main is
  instance,         \* the backend instance db: "none", "open" or "closed"
  calls,            \* the calls issued on the instance, in order
  error,            \* the exception main is unwinding with, NoError if none
  queries, qrels, dim,
  i,                \* the offset of the batch loop
  index_build_time,
  eval_queries,
  qi,               \* the position of the query loop in eval_queries
  latencies, recalls, mrrs, ndcgs,
  result,           \* the record make_result built, <<>> before
  saved,            \* the records save_result wrote
  store,            \* what the backend server holds for the run's namespace
  last,             \* the last call made on the backend and its outcome
  written,          \* per id, the vector and metadata of its last upsert
  arg_truth, arg_retrieved, arg_k,   \* the arguments of a metric call
  scored,           \* what the metric functions returned for them
  run,              \* which pass of the query phase is running
  first_run         \* what the first pass of the query phase recorded

inputs == <<args_db, parquet, queries_file, qrels_file>>
loaded == <<queries, qrels, dim>>
lists == <<latencies, recalls, mrrs, ndcgs>>
backend == <<store, last, written>>
metric_call == <<arg_truth, arg_retrieved, arg_k, scored>>
passes == <<run, first_run>>
\* The state main does not touch: it sees the backend only through calls.
outside_main == <<backend, metric_call, passes>>
vars == <<inputs, pc, instance, calls, error, loaded, i, index_build_time,
          eval_queries, qi, lists, result, saved, outside_main>>

\* A server that holds nothing for the namespace: no collection, index or table,
\* no rows, no relationships.
FreshStore == [exists |-> FALSE, dim |-> 0, rows |-> <<>>, edges |-> {}]
NoCall == [op |-> "none"]

\* The parts of the state a specification leaves alone.
NoBackend == store = FreshStore /\ last = NoCall /\ written = <<>>
NoMetricCall == arg_truth = {} /\ arg_retrieved = <<>> /\ arg_k = 0 /\ scored = <<>>
NoPasses == run = 0 /\ first_run = <<>>

Call(op, args, ok) == [op |-> op, args |-> args, ok |-> ok]

\* Where an exception raised inside the try block of main goes: the finally
\* block (main, lines 95 and 231-233).
handler_outside_try == "exit"
handler == "finally"

\* model.encode(query_text, normalize_embeddings=True)
encode(text) == [embedding_of |-> text]

\* df['id'].tolist(), df['emb'].tolist(), df[['doc_id']].to_dict('records')
\* with text added for pgvector (main, lines 113-120).
ids == [j \in DOMAIN parquet |-> parquet[j].id]
vectors == [j \in DOMAIN parquet |-> parquet[j].emb]
metas ==
  [j \in DOMAIN parquet |->
     IF args_db = "pgvector"
     THEN [doc_id |-> parquet[j].doc_id, text |-> parquet[j].text]
     ELSE [doc_id |-> parquet[j].doc_id]]

\* The three slices of the batch at offset off (main, lines 125-127).
batch_ids_short(off) == Slice(ids, off, off + batch_size - 1)
batch_ids(off) == Slice(ids, off, off + batch_size)
batch_vectors_shifted(off) ==
  IF off = 0 THEN Slice(vectors, 0, batch_size)
  ELSE Slice(vectors, off - 1, off + batch_size - 1)
batch_vectors(off) == Slice(vectors, off, off + batch_size)
batch_metas(off) == Slice(metas, off, off + batch_size)

\* The loop header for i in range(0, len(ids), batch_size): the value after off.
next_offset(off) == off + batch_size
more_batches_drop_tail(off) == off + batch_size <= Len(ids)
more_batches(off) == off < Len(ids)

Times == {0, 2}
EmbedTimes == {1}
SearchTimes == {1, 2}

\* What a backend's search may return to the run: a list of at most k
\* (id, score, payload) tuples.
Hit(n, score) == <<PyInt(n), score, [doc_id |-> PyInt(n)]>>
\* Neo4jVectorDB.search returns [] whatever the store holds.
Neo4jSearchReturns == {<<>>}
SearchReturns(v) ==
  IF v = "neo4j" THEN Neo4jSearchReturns
  ELSE {<<>>, <<Hit(1, 9)>>, <<Hit(2, 9), Hit(1, 8)>>}

Init ==
  /\ args_db \in Variants \cup {"other"}
  /\ parquet \in Corpora
  /\ queries_file \in QueryFiles
  /\ qrels_file \in QrelFiles
  /\ Len(parquet) > MaxDocs => (queries_file = SmokeQueries /\ qrels_file = SmokeQrels)
  /\ pc = "start"
  /\ instance = "none"
  /\ calls = <<>>
  /\ error = NoError
  /\ queries = <<>> /\ qrels = EmptyDict /\ dim = 0
  /\ i = 0
  /\ index_build_time = 0
  /\ eval_queries = <<>>
  /\ qi = 1
  /\ latencies = <<>> /\ recalls = <<>> /\ mrrs = <<>> /\ ndcgs = <<>>
  /\ result = <<>>
  /\ saved = <<>>
  /\ NoBackend /\ NoMetricCall /\ NoPasses

\* main, line 93: db = get_db_client(args.db), outside the try block.
GetDbClient ==
  /\ pc = "start"
  /\ IF args_db \notin Variants
     THEN /\ error' = Raise("ValueError") /\ pc' = "exit" /\ UNCHANGED instance
     ELSE IF ~Instantiable(args_db)
     THEN /\ error' = Raise("TypeError") /\ pc' = "exit" /\ UNCHANGED instance
     ELSE /\ instance' = "open" /\ pc' = "load" /\ UNCHANGED error
  /\ UNCHANGED <<inputs, calls, loaded, i, index_build_time, eval_queries, qi,
                 lists, result, saved>>
  /\ UNCHANGED outside_main

\* main, lines 96-104: load_queries, load_qrels, read_parquet, dim.
LoadData ==
  /\ pc = "load"
  /\ \E ok \in BOOLEAN :
       IF ~ok
       THEN /\ error' = Raise("OSError") /\ pc' = handler /\ UNCHANGED loaded
       ELSE IF Len(parquet) = 0
       THEN /\ error' = Raise("IndexError") /\ pc' = handler
            /\ queries' = load_queries(queries_file)
            /\ qrels' = load_qrels(qrels_file)
            /\ UNCHANGED dim
       ELSE /\ queries' = load_queries(queries_file)
            /\ qrels' = load_qrels(qrels_file)
            /\ dim' = Len(parquet[1].emb)
            /\ pc' = "setup"
            /\ UNCHANGED error
  /\ UNCHANGED <<inputs, instance, calls, i, index_build_time, eval_queries, qi,
                 lists, result, saved>>
  /\ UNCHANGED outside_main

\* main, line 108: db.setup(dim).
Setup ==
  /\ pc = "setup"
  /\ \E ok \in BOOLEAN :
       /\ calls' = Append(calls, Call("setup", <<dim>>, ok))
       /\ IF ok THEN pc' = "index" /\ i' = 0 /\ UNCHANGED error
          ELSE pc' = handler /\ error' = Raise("Exception") /\ UNCHANGED i
  /\ UNCHANGED <<inputs, instance, loaded, index_build_time, eval_queries, qi,
                 lists, result, saved>>
  /\ UNCHANGED outside_main

\* main, lines 124-129: one iteration of the batch loop.
UpsertBatch ==
  /\ pc = "index"
  /\ more_batches(i)
  /\ \E ok \in BOOLEAN :
       /\ calls' = Append(calls,
            Call("upsert", <<batch_ids(i), batch_vectors(i), batch_metas(i)>>, ok))
       /\ IF ok THEN i' = next_offset(i) /\ UNCHANGED <<pc, error>>
          ELSE pc' = handler /\ error' = Raise("Exception") /\ UNCHANGED i
  /\ UNCHANGED <<inputs, instance, loaded, index_build_time, eval_queries, qi,
                 lists, result, saved>>
  /\ UNCHANGED outside_main

\* main, lines 131-148: the loop is over; index_build_time, the model is loaded,
\* the lists are initialised and eval_queries is filtered.
StartEval ==
  /\ pc = "index"
  /\ ~more_batches(i)
  /\ \E t \in Times : index_build_time' = t
  /\ \E ok \in BOOLEAN :
       IF ok
       THEN /\ eval_queries' =
                 SelectSeq(queries, LAMBDA q : q._id \in DOMAIN qrels)
            /\ qi' = 1
            /\ pc' = "eval"
            /\ UNCHANGED error
       ELSE /\ error' = Raise("OSError") /\ pc' = handler
            /\ UNCHANGED <<eval_queries, qi>>
  /\ UNCHANGED <<inputs, instance, calls, loaded, i, lists, result, saved>>
  /\ UNCHANGED outside_main

\* main, lines 150-179: one iteration of the query loop.
EvalQuery ==
  /\ pc = "eval"
  /\ qi <= Len(eval_queries)
  /\ LET query == eval_queries[qi]
         query_id == query._id
         truth_ids == ToSet(qrels[query_id])
     IN IF truth_ids = {}
        THEN /\ qi' = qi + 1
             /\ UNCHANGED <<pc, calls, error, lists>>
        ELSE \E ok \in BOOLEAN :
               /\ calls' = Append(calls, Call("search", <<encode(query.text), top_k>>, ok))
               /\ IF ~ok
                  THEN /\ error' = Raise("Exception") /\ pc' = handler
                       /\ UNCHANGED <<qi, lists>>
                  ELSE \E results \in SearchReturns(args_db),
                          embed_time \in EmbedTimes, search_time \in SearchTimes :
                         LET retrieved_ids ==
                               [j \in DOMAIN results |-> str(results[j][1])]
                         IN /\ latencies' = Append(latencies, embed_time + search_time)
                            /\ recalls' =
                                 Append(recalls, recall_at_k(truth_ids, retrieved_ids, top_k))
                            /\ mrrs' =
                                 Append(mrrs, mrr_at_k(truth_ids, retrieved_ids, top_k))
                            /\ ndcgs' =
                                 Append(ndcgs, ndcg_at_k(truth_ids, retrieved_ids, top_k))
                            /\ qi' = qi + 1
                            /\ UNCHANGED <<pc, error>>
  /\ UNCHANGED <<inputs, instance, loaded, i, index_build_time, eval_queries,
                 result, saved>>
  /\ UNCHANGED outside_main

\* The query count main passes to make_result and divides by eval_time
\* (main, lines 188 and 200).
queries_count == Len(eval_queries)

\* main, lines 181-226: the aggregates and the result record.
Aggregate ==
  /\ pc = "eval"
  /\ qi > Len(eval_queries)
  /\ \E eval_time \in Times, ok \in BOOLEAN :
       IF ok
       THEN /\ result' = make_result(Len(parquet), queries_count, dim, args_db,
                 [index_build_time_sec |-> index_build_time,
                  upsert_rate_vps |-> Rate(Len(parquet), index_build_time),
                  p95 |-> Percentile95(latencies),
                  qps |-> Rate(queries_count, eval_time)],
                 [recall |-> Mean(recalls), mrr |-> Mean(mrrs), ndcg |-> Mean(ndcgs)])
            /\ pc' = "save"
            /\ UNCHANGED error
       ELSE /\ error' = Raise("Exception") /\ pc' = handler
            /\ UNCHANGED result
  /\ UNCHANGED <<inputs, instance, calls, loaded, i, index_build_time,
                 eval_queries, qi, lists, saved>>
  /\ UNCHANGED outside_main

\* main, line 229: save_result(result, ...).
SaveResult ==
  /\ pc = "save"
  /\ \E ok \in BOOLEAN :
       IF ok THEN saved' = Append(saved, result) /\ pc' = "finally" /\ UNCHANGED error
       ELSE error' = Raise("OSError") /\ pc' = handler /\ UNCHANGED saved
  /\ UNCHANGED <<inputs, instance, calls, loaded, i, index_build_time,
                 eval_queries, qi, lists, result>>
  /\ UNCHANGED outside_main

\* main, lines 231-234: the finally block, then the run ends (with the pending
\* exception, if any).
Close ==
  /\ pc = "finally"
  /\ calls' = Append(calls, Call("close", <<>>, TRUE))
  /\ instance' = "closed"
  /\ pc' = "exit"
  /\ UNCHANGED <<inputs, error, loaded, i, index_build_time, eval_queries, qi,
                 lists, result, saved>>
  /\ UNCHANGED outside_main

Next ==
  \/ GetDbClient
  \/ LoadData
  \/ Setup
  \/ UpsertBatch
  \/ StartEval
  \/ EvalQuery
  \/ Aggregate
  \/ SaveResult
  \/ Close

Spec == Init /\ [][Next]_vars

\* ------------------------------------------------------------ claims
OpsAt(op) == {j \in DOMAIN calls : calls[j].op = op}
Upserts == SelectSeq(calls, LAMBDA c : c.op = "upsert")
CeilDiv(n, b) == (n + b - 1) \div b

\* The indexing phase of the run has run to its end: setup and every upsert
\* issued have returned and the batch loop is over.
IndexingCompleted ==
  /\ calls # <<>>
  /\ calls[1].op = "setup" /\ calls[1].ok
  /\ \A j \in OpsAt("upsert") : calls[j].ok
  /\ pc # "index"

\* C1: once the backend instance exists, a run that has ended has called close()
\* on it as its last call, whatever step failed; no call follows close(); and a
\* run that has not ended can always take a step, so it ends with close().
C1_CloseOnEveryExit ==
  /\ (pc = "exit" /\ instance # "none") =>
        /\ instance = "closed"
        /\ calls # <<>>
        /\ calls[Len(calls)].op = "close"
  /\ \A j \in OpsAt("close") : j = Len(calls)
  /\ instance = "open" => ENABLED Next

\* A run that ended by a failed search call, closed.
C1_Witness ==
  /\ pc = "exit"
  /\ error # NoError
  /\ \E j \in OpsAt("search") : ~calls[j].ok
  /\ calls[Len(calls)].op = "close"

\* C2: every backend name get_db_client knows yields an instance, and each of
\* the five operations of the contract is defined on it.
C2_EveryVariantImplementsContract ==
  (pc # "start" /\ args_db \in Variants) =>
     /\ instance # "none"
     /\ \A op \in AbstractMethods : op \in Methods(args_db)

\* C3: setup is the first call and the only setup, and a run that is indexing,
\* querying or saving has called it; a new call is issued only
\* after the previous one returned; every upsert precedes every search; and a
\* search is issued only when every batch of the corpus has been upserted.
C3_PhaseOrder ==
  /\ Cardinality(OpsAt("setup")) <= 1
  /\ pc \in {"index", "eval", "save"} => Cardinality(OpsAt("setup")) = 1
  /\ \A j \in OpsAt("upsert") \cup OpsAt("search") :
        /\ 1 \in OpsAt("setup") /\ calls[1].ok /\ j > 1
        /\ \A h \in 1..(j - 1) : calls[h].ok
  /\ \A a \in OpsAt("search"), b \in OpsAt("upsert") : b < a
  /\ OpsAt("search") # {} =>
        Cardinality(OpsAt("upsert")) = Cardinality(Range(Len(parquet), batch_size))

\* A run that searched after three upsert batches.
C3_Witness ==
  /\ Cardinality(OpsAt("upsert")) = 3
  /\ OpsAt("search") # {}

\* C4: n documents are indexed by ceil(n / batch_size) upsert calls, all of
\* batch_size documents but the last, which carries the rest; 2500 documents
\* give calls of 1000, 1000 and 500; an empty corpus gives no call.
C4_BatchCount ==
  LET n == Len(parquet)
      sizes == [j \in DOMAIN Upserts |-> Len(Upserts[j].args[1])]
  IN /\ Len(Upserts) <= CeilDiv(n, batch_size)
     /\ n = 0 => Upserts = <<>>
     /\ IndexingCompleted =>
          /\ Len(sizes) = CeilDiv(n, batch_size)
          /\ \A j \in DOMAIN sizes :
               sizes[j] = IF j < Len(sizes) THEN batch_size
                          ELSE n - batch_size * (CeilDiv(n, batch_size) - 1)
          /\ n = 2500 => sizes = <<1000, 1000, 500>>

\* The indexing of 2500 documents has completed.
C4_Witness == IndexingCompleted /\ Len(parquet) = 2500 /\ Len(Upserts) = 3

\* The rows the arrays of the upsert calls us, concatenated in call order,
\* stand for: row r is <<ids[r], vectors[r], metas[r].doc_id>>.
RowsUpserted(us) ==
  LET rows(u) == [p \in DOMAIN u.args[1] |->
                    <<u.args[1][p], u.args[2][p], u.args[3][p].doc_id>>]
      RECURSIVE cat(_)
      cat(n) == IF n = 0 THEN <<>> ELSE cat(n - 1) \o rows(us[n])
  IN cat(Len(us))

\* C5: in every upsert call the three arrays have one length; the batches issued
\* so far, concatenated, are a prefix of the corpus rows in file order (id,
\* embedding and doc_id of row r at position r), and the whole corpus once the
\* indexing has completed.
C5_BatchesAreTheCorpusInOrder ==
  /\ \A j \in OpsAt("upsert") :
       /\ Len(calls[j].args[1]) = Len(calls[j].args[2])
       /\ Len(calls[j].args[2]) = Len(calls[j].args[3])
  /\ \E n \in {Len(parquet)} \cup {j * batch_size : j \in 0..Len(calls)} :
       /\ n <= Len(parquet)
       /\ IndexingCompleted => n = Len(parquet)
       /\ RowsUpserted(Upserts) =
            [r \in 1..n |-> <<parquet[r].id, parquet[r].emb, parquet[r].doc_id>>]

\* Two batches of a corpus of 1001 rows have been upserted.
C5_Witness == IndexingCompleted /\ Len(parquet) = 1001 /\ Len(Upserts) = 2

\* C6: a failed upsert call is the last call of the run but close(): no later
\* batch, no search, no setup or clear, nothing persisted, and the run fails with
\* an IndexingError that carries the offset of the failed batch.
C6_UpsertFailureIsIndexingError ==
  \A j \in OpsAt("upsert") : ~calls[j].ok =>
     /\ \A h \in (j + 1)..Len(calls) : calls[h].op = "close"
     /\ saved = <<>>
     /\ error = [type |-> "IndexingError",
                 args |-> <<batch_size * Cardinality({h \in OpsAt("upsert") : h < j})>>]

\* C7: a failed search call is the last search of the run, and the run still ends
\* with one result record persisted, aggregated from the outcomes computed before
\* the failure and flagged as partial.
C7_SearchFailureReportsPartialRun ==
  \A j \in OpsAt("search") : ~calls[j].ok =>
     /\ \A h \in (j + 1)..Len(calls) : calls[h].op # "search"
     /\ pc = "exit" =>
          /\ Len(saved) = 1
          /\ saved[1].retrieval =
               [recall |-> Mean(recalls), mrr |-> Mean(mrrs), ndcg |-> Mean(ndcgs)]
          /\ "partial" \in DOMAIN saved[1]
          /\ saved[1].partial

\* C8: when some document's embedding is not as long as the first document's,
\* neither setup nor upsert is ever called, and a run that has read the corpus
\* ends with a DimensionError.
C8_DimensionMismatchBeforeBackendCalls ==
  (\E r \in DOMAIN parquet : Len(parquet[r].emb) # Len(parquet[1].emb)) =>
     /\ OpsAt("setup") = {}
     /\ OpsAt("upsert") = {}
     /\ (pc = "exit" /\ dim # 0) => error.type = "DimensionError"

\* The documents the qrels file judges relevant (score > 0) for query q.
RelevantInFile(q) ==
  {l[2] : l \in {m \in ToSet(qrels_file) : m[1] = q /\ m[3] > 0}}
\* The id of the query a search call was issued for.
QueryOfCall(c) == c.args[1].embedding_of[2]

\* C9: a search call is issued only for a query that has a relevant document in
\* the qrels file, at most once per such query of the queries file, and each of
\* the four lists holds one entry per search call that returned: a query with
\* no judgment or with none of positive score adds no call and no entry, and the
\* means and the percentile of the result record are those of these lists.
C9_ExcludedQueriesContributeNothing ==
  LET returned == {j \in OpsAt("search") : calls[j].ok}
  IN /\ \A j \in OpsAt("search") : RelevantInFile(QueryOfCall(calls[j])) # {}
     /\ \A a, b \in OpsAt("search") :
          QueryOfCall(calls[a]) = QueryOfCall(calls[b]) => a = b
     /\ \A j \in OpsAt("search") :
          \E p \in DOMAIN queries_file : queries_file[p]._id = QueryOfCall(calls[j])
     /\ Len(latencies) = Cardinality(returned)
     /\ Len(recalls) = Cardinality(returned)
     /\ Len(mrrs) = Cardinality(returned)
     /\ Len(ndcgs) = Cardinality(returned)
     /\ result # <<>> =>
          /\ result.retrieval =
               [recall |-> Mean(recalls), mrr |-> Mean(mrrs), ndcg |-> Mean(ndcgs)]
          /\ result.performance.p95 = Percentile95(latencies)

\* A finished run whose queries file holds a query with judgments of score 0
\* only, next to one that was searched.
C9_Witness ==
  /\ pc = "exit"
  /\ saved # <<>>
  /\ OpsAt("search") # {}
  /\ \E p \in DOMAIN queries_file :
       /\ RelevantInFile(queries_file[p]._id) = {}
       /\ \E l \in ToSet(qrels_file) : l[1] = queries_file[p]._id

\* C10: the queries_count of the result record and the numerator of its QPS are
\* the number of queries evaluated, that is, of per-query outcomes appended.
C10_QueryCountIsEvaluatedCount ==
  result # <<>> =>
     /\ result.context.queries_count = Len(recalls)
     /\ \/ result.performance.qps = Zero
        \/ result.performance.qps[1] = Len(recalls)

\* ============================================================ backend stores
\* What each backend class does to the server it talks to.  A store is
\*   exists : the collection (qdrant, weaviate), index (redis) or table (pgvector)
\*   dim    : the vector size it was created with
\*   rows   : the points / objects / hashes / table rows / Entity nodes, by key
\*   edges  : the CO_OCCURS relationships (neo4j)

\* Largest document number an upsert names.
MaxStoreIds == 2
\* Largest number of ids in one upsert call.
MaxBatch == 2
\* Largest k of a search call.
MaxSearchK == 2

\* The vectors of the calls, and the sizes a store is set up with: theirs.
Vecs == {<<1, 0>>, <<0, 1>>, <<1, 1>>}
Dims == {Len(v) : v \in Vecs}
\* The vectors the upsert calls carry.
StoredVecs == {<<1, 0>>, <<1, 1>>}

Dot(a, b) == SumOver([j \in DOMAIN a |-> a[j] * b[j]], DOMAIN a)
ISqrt(n) == CHOOSE r \in 0..1000 : r * r <= n /\ n < (r + 1) * (r + 1)
\* Cosine similarity of two vectors with no negative coordinate, in units of 1/1000.
CosineSimilarity(a, b) ==
  ISqrt((Dot(a, b) * Dot(a, b) * 1000000) \div (Dot(a, a) * Dot(b, b)))
\* The COSINE distance the backends measure: 1 - similarity.
CosineDistance(a, b) == 1000 - CosineSimilarity(a, b)

\* How a call on a backend instance ends.
Returned(s, value) == [store |-> s, ok |-> TRUE, value |-> value, error |-> "none"]
Raised(s, type) == [store |-> s, ok |-> FALSE, value |-> <<>>, error |-> type]

\* zip(ids, vectors, metas): stops at the shortest argument.
zip(xs, ys, zs) ==
  [j \in 1..Min(Len(xs), Min(Len(ys), Len(zs))) |-> <<xs[j], ys[j], zs[j]>>]

\* Writing keyed rows one after the other: a later row replaces an earlier one
\* of the same key.
Put(rows, key, row) ==
  [x \in DOMAIN rows \cup {key} |-> IF x = key THEN row ELSE rows[x]]
RECURSIVE PutAll(_, _, _)
PutAll(rows, items, n) ==
  IF n > Len(items) THEN rows
  ELSE PutAll(Put(rows, items[n][1], items[n][2]), items, n + 1)

RECURSIVE SetToSeq(_)
SetToSeq(S) ==
  IF S = {} THEN <<>>
  ELSE LET x == CHOOSE y \in S : TRUE IN <<x>> \o SetToSeq(S \ {x})

Reverse(s) == [j \in 1..Len(s) |-> s[Len(s) + 1 - j]]

\* The keys of the rows, nearest to query_vec first; rows at the same distance
\* come in the order of their document numbers.
Nearest(rows, query_vec) ==
  SortSeq(SetToSeq(DOMAIN rows),
          LAMBDA a, b :
            LET da == CosineDistance(rows[a].vector, query_vec)
                db == CosineDistance(rows[b].vector, query_vec)
            IN da < db \/ (da = db /\ a.v < b.v))

Created(dim_) == [exists |-> TRUE, dim |-> dim_, rows |-> <<>>, edges |-> {}]
Dropped == FreshStore

\* ---- databases/qdrant_client.py
\* (QdrantVectorDB cannot be instantiated, see Instantiable, so no call reaches
\* these methods.)
Qdrant_setup(s, dim_) == {Returned(Created(dim_), <<>>)}
Qdrant_upsert(s, ids_, vectors_, metas_) ==
  LET points == zip(ids_, vectors_, metas_)
      items == [j \in DOMAIN points |->
                  <<points[j][1], [vector |-> points[j][2], payload |-> points[j][3]]>>]
  IN IF ~s.exists THEN {Raised(s, "UnexpectedResponse")}
     ELSE {Returned([s EXCEPT !.rows = PutAll(@, items, 1)], <<>>)}
Qdrant_search(s, query_vec, k_) ==
  LET found == Slice(Nearest(s.rows, query_vec), 0, k_)
  IN IF ~s.exists THEN {Raised(s, "UnexpectedResponse")}
     ELSE {Returned(s, [j \in DOMAIN found |->
                          <<found[j],
                            CosineSimilarity(s.rows[found[j]].vector, query_vec),
                            s.rows[found[j]].payload>>])}
Qdrant_clear(s) == {Returned(Dropped, <<>>)}

\* ---- databases/weaviate_client.py
\* str(uuid.uuid5(uuid.NAMESPACE_DNS, str(idx))): the text of a uuid that depends
\* on the text of the id only, and is not that text.
uuid5(idx) == [py |-> "uuid", v |-> str(idx).v]
Weaviate_setup(s, dim_) == {Returned(Created(dim_), <<>>)}
\* insert_many goes through the batch endpoint, which replaces an object whose
\* uuid is already stored.  With no collection the server either refuses the batch
\* or, with auto-schema on, creates the collection for it.
Weaviate_upsert(s, ids_, vectors_, metas_) ==
  LET objs == zip(ids_, vectors_, metas_)
      items == [j \in DOMAIN objs |->
                  <<uuid5(objs[j][1]),
                    [vector |-> objs[j][2],
                     payload |-> [doc_id |-> str(objs[j][3].doc_id), text |-> ""]]>>]
      stored == [s EXCEPT !.exists = TRUE, !.rows = PutAll(@, items, 1)]
  IN IF s.exists THEN {Returned(stored, <<>>)}
     ELSE {Raised(s, "Exception"), Returned(stored, <<>>)}
Weaviate_search(s, query_vec, k_) ==
  LET found == Slice(Nearest(s.rows, query_vec), 0, k_)
  IN IF ~s.exists THEN {Raised(s, "WeaviateQueryError")}
     ELSE {Returned(s, [j \in DOMAIN found |->
                          <<str(found[j]),
                            1000 - CosineDistance(s.rows[found[j]].vector, query_vec),
                            s.rows[found[j]].payload>>])}
Weaviate_clear(s) == {Returned(Dropped, <<>>)}

\* ---- databases/redis_client.py
\* f"{self.prefix}{idx}" with the prefix taken off again by search: the text of idx.
RedisKey(idx) == str(idx)
\* dropindex(delete_documents=True) inside try/except: with an index, the index
\* and the hashes under the prefix go; with none, the command fails, the except
\* clause swallows the error and the hashes stay.
Redis_dropindex(s) == IF s.exists THEN Dropped ELSE s
\* create_index over the prefix: hashes already under the prefix are indexed.
Redis_setup(s, dim_) ==
  {Returned([Redis_dropindex(s) EXCEPT !.exists = TRUE, !.dim = dim_], <<>>)}
\* hset needs no index.
Redis_upsert(s, ids_, vectors_, metas_) ==
  LET hashes == zip(ids_, vectors_, metas_)
      items == [j \in DOMAIN hashes |->
                  <<RedisKey(hashes[j][1]),
                    [vector |-> hashes[j][2],
                     payload |-> [doc_id |-> hashes[j][3].doc_id]]>>]
  IN {Returned([s EXCEPT !.rows = PutAll(@, items, 1)], <<>>)}
\* KNN k gives the k nearest hashes with score = distance; sort_by('score',
\* asc=False) puts the largest distance first.
Redis_sort_by(found) == Reverse(found)
Redis_search(s, query_vec, k_) ==
  LET docs == Redis_sort_by(Slice(Nearest(s.rows, query_vec), 0, k_))
  IN IF ~s.exists THEN {Raised(s, "ResponseError")}
     ELSE {Returned(s, [j \in DOMAIN docs |->
                          <<docs[j],
                            1000 - CosineDistance(s.rows[docs[j]].vector, query_vec),
                            s.rows[docs[j]].payload>>])}
Redis_clear(s) == {Returned(Redis_dropindex(s), <<>>)}

\* ---- databases/pgvector_client.py
\* The id column is TEXT: an int id is stored, and comes back, as its text.
Pg_setup(s, dim_) == {Returned(Created(dim_), <<>>)}
\* One INSERT ... ON CONFLICT (id) DO UPDATE per page of 100 rows; a statement
\* that names the same id twice is rejected, and nothing is committed.
Pg_upsert(s, ids_, vectors_, metas_) ==
  LET data == zip(ids_, vectors_, metas_)
      items == [j \in DOMAIN data |->
                  <<str(data[j][1]),
                    [vector |-> data[j][2],
                     payload |-> [doc_id |-> str(data[j][3].doc_id)]]>>]
  IN IF ~s.exists THEN {Raised(s, "UndefinedTable")}
     ELSE IF \E a, b \in DOMAIN items : a # b /\ items[a][1] = items[b][1]
     THEN {Raised(s, "CardinalityViolation")}
     ELSE {Returned([s EXCEPT !.rows = PutAll(@, items, 1)], <<>>)}
Pg_search(s, query_vec, k_) ==
  LET results == Slice(Nearest(s.rows, query_vec), 0, k_)
  IN IF ~s.exists THEN {Raised(s, "UndefinedTable")}
     ELSE {Returned(s, [j \in DOMAIN results |->
                          <<results[j],
                            1000 - CosineDistance(s.rows[results[j]].vector, query_vec),
                            s.rows[results[j]].payload>>])}
Pg_clear(s) == {Returned(Dropped, <<>>)}

\* ---- databases/neo4j_client.py
Neo4j_setup(s, dim_) == {Returned(s, <<>>)}
\* _clear_cooccurs, then per doc_id with more than one id, _create_cooccurs:
\* MERGE an Entity node per id and a CO_OCCURS relationship per pair.
Neo4j_upsert(s, ids_, vectors_, metas_) ==
  LET pairs == [j \in 1..Min(Len(ids_), Len(metas_)) |-> <<ids_[j], metas_[j]>>]
      entity_ids(doc_id) ==
        LET of_doc == SelectSeq(pairs, LAMBDA p : p[2].doc_id = doc_id)
        IN [j \in DOMAIN of_doc |-> of_doc[j][1]]
      docs == {pairs[j][2].doc_id : j \in DOMAIN pairs}
      merged == {<<entity_ids(t[1])[t[2]], entity_ids(t[1])[t[3]]>> :
                   t \in {u \in docs \X (1..Len(pairs)) \X (1..Len(pairs)) :
                            u[2] < u[3] /\ u[3] <= Len(entity_ids(u[1]))}}
      nodes == {e[1] : e \in merged} \cup {e[2] : e \in merged}
  IN {Returned([s EXCEPT !.edges = merged,
                         !.rows = [x \in DOMAIN s.rows \cup nodes |-> [id |-> x]]],
               <<>>)}
Neo4j_search(s, query_vec, k_) == {Returned(s, r) : r \in Neo4jSearchReturns}
Neo4j_clear(s) == {Returned([s EXCEPT !.rows = <<>>, !.edges = {}], <<>>)}

\* ---- the class get_db_client selected
db_setup(v, s, dim_) ==
  CASE v = "qdrant"   -> Qdrant_setup(s, dim_)
    [] v = "weaviate" -> Weaviate_setup(s, dim_)
    [] v = "redis"    -> Redis_setup(s, dim_)
    [] v = "pgvector" -> Pg_setup(s, dim_)
    [] v = "neo4j"    -> Neo4j_setup(s, dim_)
db_upsert(v, s, ids_, vectors_, metas_) ==
  CASE v = "qdrant"   -> Qdrant_upsert(s, ids_, vectors_, metas_)
    [] v = "weaviate" -> Weaviate_upsert(s, ids_, vectors_, metas_)
    [] v = "redis"    -> Redis_upsert(s, ids_, vectors_, metas_)
    [] v = "pgvector" -> Pg_upsert(s, ids_, vectors_, metas_)
    [] v = "neo4j"    -> Neo4j_upsert(s, ids_, vectors_, metas_)
db_search(v, s, query_vec, k_) ==
  CASE v = "qdrant"   -> Qdrant_search(s, query_vec, k_)
    [] v = "weaviate" -> Weaviate_search(s, query_vec, k_)
    [] v = "redis"    -> Redis_search(s, query_vec, k_)
    [] v = "pgvector" -> Pg_search(s, query_vec, k_)
    [] v = "neo4j"    -> Neo4j_search(s, query_vec, k_)
db_clear(v, s) ==
  CASE v = "qdrant"   -> Qdrant_clear(s)
    [] v = "weaviate" -> Weaviate_clear(s)
    [] v = "redis"    -> Redis_clear(s)
    [] v = "pgvector" -> Pg_clear(s)
    [] v = "neo4j"    -> Neo4j_clear(s)

\* ---- calls on one backend instance, in any order
\* The arguments of an upsert call: up to MaxBatch ids, a vector for each, and
\* metadata whose doc_id is the id itself (as in the FiQA corpus) or one shared
\* document; `short` names an argument that came one element short.
StoreIds == {PyInt(n) : n \in 1..MaxStoreIds}
UpsertArgs ==
  {[ids |-> ids_,
    vectors |-> IF short = "vectors" THEN SubSeq(vectors_, 1, Len(ids_) - 1) ELSE vectors_,
    metas |-> LET ms == [j \in DOMAIN ids_ |->
                           [doc_id |-> IF shared THEN PyInt(1) ELSE ids_[j]]]
              IN IF short = "metas" THEN SubSeq(ms, 1, Len(ids_) - 1) ELSE ms] :
     <<ids_, vectors_, shared, short>> \in
       UNION {([1..n -> StoreIds] \X [1..n -> StoredVecs] \X BOOLEAN
                 \X (IF n > 1 THEN {"none", "vectors", "metas"} ELSE {"none"})) :
              n \in 1..MaxBatch}}

\* The state of a process that only drives a backend instance.
NoRun ==
  /\ parquet = <<>> /\ queries_file = <<>> /\ qrels_file = <<>>
  /\ pc = "calls"
  /\ instance = "none"
  /\ calls = <<>>
  /\ error = NoError
  /\ queries = <<>> /\ qrels = EmptyDict /\ dim = 0
  /\ i = 0
  /\ index_build_time = 0
  /\ eval_queries = <<>>
  /\ qi = 1
  /\ latencies = <<>> /\ recalls = <<>> /\ mrrs = <<>> /\ ndcgs = <<>>
  /\ result = <<>>
  /\ saved = <<>>
run_vars == <<inputs, pc, instance, calls, error, loaded, i, index_build_time,
              eval_queries, qi, lists, result, saved>>

StoreInit ==
  /\ args_db \in Variants
  /\ NoRun
  /\ NoBackend /\ NoMetricCall /\ NoPasses

Outcome(op, args, before, out) ==
  [op |-> op, args |-> args, before |-> before,
   ok |-> out.ok, value |-> out.value, error |-> out.error]

\* The rows a successful upsert call handed over, by the text of their id.
Handed(w, ids_, vectors_, metas_) ==
  LET given == zip(ids_, vectors_, metas_)
  IN PutAll(w, [j \in DOMAIN given |->
                  <<str(given[j][1]),
                    [vector |-> given[j][2], doc_id |-> str(given[j][3].doc_id)]>>], 1)

StoreSetup ==
  /\ Instantiable(args_db)
  /\ \E dim_ \in Dims :
       \E out \in db_setup(args_db, store, dim_) :
         /\ store' = out.store
         /\ last' = Outcome("setup", [dim |-> dim_], store, out)
         /\ written' = IF out.ok THEN <<>> ELSE written
  /\ UNCHANGED <<run_vars, metric_call, passes>>

StoreUpsert ==
  /\ Instantiable(args_db)
  /\ \E a \in UpsertArgs :
       \E out \in db_upsert(args_db, store, a.ids, a.vectors, a.metas) :
         /\ store' = out.store
         /\ last' = Outcome("upsert", a, store, out)
         /\ written' = IF out.ok THEN Handed(written, a.ids, a.vectors, a.metas)
                       ELSE written
  /\ UNCHANGED <<run_vars, metric_call, passes>>

StoreSearch ==
  /\ Instantiable(args_db)
  /\ \E query_vec \in Vecs, k_ \in 1..MaxSearchK :
       \E out \in db_search(args_db, store, query_vec, k_) :
         /\ store' = out.store
         /\ last' = Outcome("search", [query_vec |-> query_vec, k |-> k_], store, out)
  /\ UNCHANGED <<written, run_vars, metric_call, passes>>

StoreClear ==
  /\ Instantiable(args_db)
  /\ \E out \in db_clear(args_db, store) :
       /\ store' = out.store
       /\ last' = Outcome("clear", <<>>, store, out)
       /\ written' = IF out.ok THEN <<>> ELSE written
  /\ UNCHANGED <<run_vars, metric_call, passes>>

StoreNext == StoreSetup \/ StoreUpsert \/ StoreSearch \/ StoreClear
SpecStore == StoreInit /\ [][StoreNext]_vars

\* C11: for every backend variant and every prior state of the store, a setup
\* call that returns leaves the store provisioned and holding no entries, and a
\* second setup call with the same size leaves it as the first did.
C11_SetupLeavesStoreProvisionedAndEmpty ==
  last.op = "setup" =>
    /\ last.ok
    /\ store.exists \/ args_db = "neo4j"
    /\ DOMAIN store.rows = {} /\ store.edges = {}
    /\ \A out \in db_setup(args_db, store, last.args.dim) :
         out.ok /\ out.store = store

\* C12: for every backend variant, a clear call raises no error and leaves the
\* store without any entry of the namespace, whatever state it is called in
\* (empty, never set up, just cleared); a second clear changes nothing.
C12_ClearRemovesEverything ==
  last.op = "clear" =>
    /\ last.ok
    /\ DOMAIN store.rows = {} /\ store.edges = {}
    /\ \A out \in db_clear(args_db, store) : out.ok /\ out.store = store

\* C13: a search made on a store that holds no entries, right after a setup or
\* after a clear of a provisioned store, returns the empty sequence and does not
\* fail.
C13_SearchOnEmptyStoreReturnsNothing ==
  [][(/\ last.op = "setup" \/ (last.op = "clear" /\ last.before.exists)
      /\ last.ok
      /\ DOMAIN store.rows = {}
      /\ last'.op = "search")
       => (last'.ok /\ last'.value = <<>>)]_vars

\* C14: a search that returns gives at most k entries, their scores never
\* increase along the sequence, and no stored vector is more similar to the query
\* than the first entry's score says.
C14_SearchReturnsTopKBySimilarity ==
  (last.op = "search" /\ last.ok) =>
    /\ Len(last.value) <= last.args.k
    /\ \A j \in 1..(Len(last.value) - 1) : last.value[j][2] >= last.value[j + 1][2]
    /\ last.value # <<>> =>
         \A key \in DOMAIN store.rows :
           CosineSimilarity(store.rows[key].vector, last.args.query_vec)
             <= last.value[1][2]

\* The store the call was made on was provisioned (neo4j needs no provisioning).
ProvisionedBefore == last.before.exists \/ args_db = "neo4j"

\* C15: an upsert call on a provisioned store whose ids, vectors and metas are
\* not of one length fails with ContractViolationError and leaves the store as
\* it was.
C15_UnequalLengthsRejected ==
  (/\ last.op = "upsert"
   /\ ProvisionedBefore
   /\ ~(Len(last.args.ids) = Len(last.args.vectors)
        /\ Len(last.args.ids) = Len(last.args.metas))) =>
    /\ ~last.ok
    /\ last.error = "ContractViolationError"
    /\ store = last.before

\* The key a backend keeps the entry of the id with text sid under.
KeyOf(v, sid) ==
  CASE v = "weaviate" -> uuid5(sid)
    [] v \in {"redis", "pgvector"} -> sid
    [] OTHER -> PyInt(sid.v)

\* C16: after an upsert call of equal-length arguments returns on a provisioned
\* store, the store holds exactly one entry per distinct id upserted since the
\* last setup or clear, with the vector and doc_id of that id's last upsert.
C16_UpsertKeepsOneEntryPerIdWithLastValues ==
  (/\ last.op = "upsert" /\ last.ok
   /\ ProvisionedBefore
   /\ Len(last.args.ids) = Len(last.args.vectors)
   /\ Len(last.args.ids) = Len(last.args.metas)) =>
    /\ Cardinality(DOMAIN store.rows) = Cardinality(DOMAIN written)
    /\ \A sid \in DOMAIN written :
         LET key == KeyOf(args_db, sid)
         IN /\ key \in DOMAIN store.rows
            /\ "vector" \in DOMAIN store.rows[key]
            /\ store.rows[key].vector = written[sid].vector
            /\ str(store.rows[key].payload.doc_id) = written[sid].doc_id

\* ============================================================ metric calls
\* One call of each metric function of utils/metrics_ir.py on a truth set, a
\* retrieved list and a cutoff.

\* Largest document number of a metric call.
MaxMetricIds == 3
\* Longest retrieved list.
MaxRetrieved == 3
\* Largest cutoff.
MaxK == 3

MetricIds == {PyStr(n) : n \in 1..MaxMetricIds}
RetrievedLists == UNION {[1..n -> MetricIds] : n \in 0..MaxRetrieved}

MetricsInit ==
  /\ args_db = "none"
  /\ NoRun
  /\ NoBackend /\ NoPasses
  /\ arg_truth \in SUBSET MetricIds
  /\ arg_retrieved \in RetrievedLists
  /\ arg_k \in 0..MaxK
  /\ scored = <<>>

\* eval_fiqa.py, lines 177-179: the three calls made for one query, and the
\* fourth function of the module, precision_at_k, on the same arguments.
ScoreQuery ==
  /\ scored = <<>>
  /\ scored' = [recall |-> recall_at_k(arg_truth, arg_retrieved, arg_k),
                mrr |-> mrr_at_k(arg_truth, arg_retrieved, arg_k),
                ndcg |-> ndcg_at_k(arg_truth, arg_retrieved, arg_k),
                precision |-> precision_at_k(arg_truth, arg_retrieved, arg_k)]
  /\ UNCHANGED <<arg_truth, arg_retrieved, arg_k, run_vars, backend, passes>>

MetricsNext == ScoreQuery
SpecMetrics == MetricsInit /\ [][MetricsNext]_vars

\* Equality of two quotients.
SameQuotient(a, b) == a[1] * b[2] = b[1] * a[2]

\* The retrieved list is the first arg_k entries of a listing of the truth set
\* in some order.
ListsTruthUpToK ==
  /\ Len(arg_retrieved) = Min(arg_k, Cardinality(arg_truth))
  /\ \A j \in DOMAIN arg_retrieved : arg_retrieved[j] \in arg_truth
  /\ \A a, b \in DOMAIN arg_retrieved : a # b => arg_retrieved[a] # arg_retrieved[b]

\* C17: for a non-empty truth set T, any list R and k >= 0, recall_at_k is the
\* number of members of T found among the first k entries of R, divided by |T|;
\* when R is the first k entries of a listing of T (k >= 1) that is
\* min(k, |T|) / |T|; when R is empty it is 0.
C17_RecallIsShareOfTruthInTopK ==
  (scored # <<>> /\ arg_truth # {}) =>
    LET found == {t \in arg_truth :
                    \E j \in DOMAIN arg_retrieved : j <= arg_k /\ arg_retrieved[j] = t}
    IN /\ SameQuotient(scored.recall, <<Cardinality(found), Cardinality(arg_truth)>>)
       /\ (arg_k >= 1 /\ ListsTruthUpToK) =>
            SameQuotient(scored.recall,
                         <<Min(arg_k, Cardinality(arg_truth)), Cardinality(arg_truth)>>)
       /\ arg_retrieved = <<>> => scored.recall[1] = 0

\* C17 witness: a listing of a three-member truth set cut at k = 2 scored 2/3.
C17_Witness ==
  /\ scored # <<>>
  /\ Cardinality(arg_truth) = 3 /\ arg_k = 2 /\ ListsTruthUpToK
  /\ scored.recall = <<2, 3>>

\* C18: mrr_at_k is 1/r for the position r (from 1) of the first entry of R[:k]
\* that is in T, and 0 when R[:k] has none (first hit beyond k, empty R); so it
\* is 1 for a first hit at rank 1 and 1/3 at rank 3.
C18_MrrIsReciprocalOfFirstHit ==
  scored # <<>> =>
    LET hits == {j \in DOMAIN arg_retrieved :
                   j <= arg_k /\ arg_retrieved[j] \in arg_truth}
    IN IF hits = {}
       THEN scored.mrr[1] = 0
       ELSE \E r \in hits :
              /\ \A h \in hits : r <= h
              /\ SameQuotient(scored.mrr, <<1, r>>)
              /\ r = 1 => scored.mrr = <<1, 1>>
              /\ r = 3 => scored.mrr = <<1, 3>>

\* C18 witness: the first hit is at rank 3, with a second relevant entry nowhere
\* before it, and the call returned 1/3.
C18_Witness ==
  /\ scored # <<>>
  /\ arg_k = 3 /\ Len(arg_retrieved) = 3
  /\ arg_retrieved[1] \notin arg_truth /\ arg_retrieved[2] \notin arg_truth
  /\ arg_retrieved[3] \in arg_truth
  /\ scored.mrr = <<1, 3>>

\* C19: for a non-empty truth set T and k >= 1, ndcg_at_k is 1 whenever the first
\* min(|T|, k) entries of R are all in T, and 0 when R is empty.
C19_NdcgOfPerfectRankingIsOne ==
  (scored # <<>> /\ arg_truth # {} /\ arg_k >= 1) =>
    LET m == Min(Cardinality(arg_truth), arg_k)
    IN /\ (Len(arg_retrieved) >= m /\ \A j \in 1..m : arg_retrieved[j] \in arg_truth)
            => scored.ndcg[1] = scored.ndcg[2]
       /\ arg_retrieved = <<>> => scored.ndcg[1] = 0

\* ============================================================ the query phase, twice
\* The query phase of main (lines 140-188) run two times in a row against a store
\* that setup and one upsert call filled and that nothing changes in between.

\* model.encode(query_text, normalize_embeddings=True): a vector per text.
QueryVec(text) ==
  CASE text = Query("q1").text -> <<1, 0>>
    [] text = Query("q2").text -> <<0, 1>>
    [] OTHER -> <<1, 1>>

\* The stores setup(dim) and one upsert of documents 1..MaxStoreIds leave.
IndexedStores(v) ==
  LET provisioned == UNION {db_setup(v, FreshStore, d) : d \in Dims}
      indexed(o1, vs) ==
        db_upsert(v, o1.store, [n \in 1..MaxStoreIds |-> PyInt(n)], vs,
                  [n \in 1..MaxStoreIds |-> [doc_id |-> PyInt(n)]])
  IN {o2.store :
        o2 \in UNION {indexed(t[1], t[2]) :
                        t \in provisioned \X [1..MaxStoreIds -> StoredVecs]}}

RepeatInit ==
  /\ args_db \in {v \in Variants : Instantiable(v)}
  /\ parquet = <<>>
  /\ queries_file \in QueryFiles
  /\ qrels_file \in QrelFiles
  /\ pc = "begin"
  /\ instance = "open"
  /\ calls = <<>>
  /\ error = NoError
  /\ queries = load_queries(queries_file)
  /\ qrels = load_qrels(qrels_file)
  /\ dim = 0 /\ i = 0 /\ index_build_time = 0
  /\ eval_queries = <<>>
  /\ qi = 1
  /\ latencies = <<>> /\ recalls = <<>> /\ mrrs = <<>> /\ ndcgs = <<>>
  /\ result = <<>>
  /\ saved = <<>>
  /\ store \in IndexedStores(args_db)
  /\ last = NoCall /\ written = <<>>
  /\ NoMetricCall
  /\ run = 1 /\ first_run = <<>>

\* main, lines 140-143: the four lists of a pass start empty.
new_list_kept(old) == old
new_list(old) == <<>>

\* main, lines 140-148.
BeginPass ==
  /\ pc = "begin"
  /\ latencies' = new_list(latencies)
  /\ recalls' = new_list(recalls)
  /\ mrrs' = new_list(mrrs)
  /\ ndcgs' = new_list(ndcgs)
  /\ eval_queries' = SelectSeq(queries, LAMBDA q : q._id \in DOMAIN qrels)
  /\ qi' = 1
  /\ pc' = "eval"
  /\ UNCHANGED <<inputs, instance, calls, error, loaded, i, index_build_time,
                 result, saved, backend, metric_call, passes>>

\* main, lines 150-179, with the search answered by the store.
PassQuery ==
  /\ pc = "eval"
  /\ qi <= Len(eval_queries)
  /\ LET query == eval_queries[qi]
         truth_ids == ToSet(qrels[query._id])
     IN IF truth_ids = {}
        THEN /\ qi' = qi + 1
             /\ UNCHANGED lists
        ELSE \E out \in db_search(args_db, store, QueryVec(query.text), top_k),
                embed_time \in EmbedTimes, search_time \in SearchTimes :
               LET retrieved_ids == [j \in DOMAIN out.value |-> str(out.value[j][1])]
               IN /\ out.ok
                  /\ latencies' = Append(latencies, embed_time + search_time)
                  /\ recalls' = Append(recalls, recall_at_k(truth_ids, retrieved_ids, top_k))
                  /\ mrrs' = Append(mrrs, mrr_at_k(truth_ids, retrieved_ids, top_k))
                  /\ ndcgs' = Append(ndcgs, ndcg_at_k(truth_ids, retrieved_ids, top_k))
                  /\ qi' = qi + 1
  /\ UNCHANGED <<inputs, pc, instance, calls, error, loaded, i, index_build_time,
                 eval_queries, result, saved, backend, metric_call, passes>>

\* main, lines 184-186: the means of a pass.
PassMeans == [recall |-> Mean(recalls), mrr |-> Mean(mrrs), ndcg |-> Mean(ndcgs)]

\* The end of the first pass: its lists and means are kept, the second begins.
EndFirstPass ==
  /\ pc = "eval" /\ run = 1
  /\ qi > Len(eval_queries)
  /\ first_run' = [latencies |-> latencies, recalls |-> recalls, mrrs |-> mrrs,
                   ndcgs |-> ndcgs, means |-> PassMeans]
  /\ run' = 2
  /\ pc' = "begin"
  /\ UNCHANGED <<inputs, instance, calls, error, loaded, i, index_build_time,
                 eval_queries, qi, lists, result, saved, backend, metric_call>>

\* The end of the second pass.
EndSecondPass ==
  /\ pc = "eval" /\ run = 2
  /\ qi > Len(eval_queries)
  /\ result' = PassMeans
  /\ pc' = "done"
  /\ UNCHANGED <<inputs, instance, calls, error, loaded, i, index_build_time,
                 eval_queries, qi, lists, saved, backend, metric_call, passes>>

RepeatNext == BeginPass \/ PassQuery \/ EndFirstPass \/ EndSecondPass
SpecRepeat == RepeatInit /\ [][RepeatNext]_vars

OnlyWrittenRows ==
  \A key \in DOMAIN store.rows :
    \E sid \in DOMAIN written : key = KeyOf(args_db, sid)

\* C21: when the store was set up and holds what was upserted since, every id a
\* search returns is, as a string, the string of an id that was upserted.
C21_SearchReturnsUpsertedIds ==
  (last.op = "search" /\ last.ok /\ store.dim \in Dims /\ OnlyWrittenRows) =>
    \A j \in DOMAIN last.value : str(last.value[j][1]) \in DOMAIN written

\* A quotient between 0 and 1 inclusive.
InUnitInterval(v) == v[2] > 0 /\ 0 <= v[1] /\ v[1] <= v[2]

\* C22: for every truth set, every retrieved list (ids may repeat) and k >= 1,
\* recall_at_k, mrr_at_k, precision_at_k and ndcg_at_k each return a value
\* between 0 and 1 inclusive.
C22_MetricsInUnitInterval ==
  (scored # <<>> /\ arg_k >= 1) =>
    /\ InUnitInterval(scored.recall)
    /\ InUnitInterval(scored.mrr)
    /\ InUnitInterval(scored.precision)
    /\ InUnitInterval(scored.ndcg)
====
